---- MODULE Spec2Model ----
(***************************************************************************)
(* Model of package partitionhelper (partition_helper.go): the Partition   *)
(* implementation of Partitioner.  Every operation formats one command     *)
(* line, hands it to the command executor and interprets the reply.        *)
(*                                                                         *)
(* Go strings are modelled as sequences of one-character strings, so that  *)
(* fmt.Sprintf, strings.Split, strings.TrimSpace, strings.Contains and     *)
(* strings.ToLower are computed character by character.                    *)
(***************************************************************************)
EXTENDS Integers, Sequences, FiniteSets, TLC

(***************************************************************************)
(* Bounds of the model.                                                    *)
(***************************************************************************)
\* number of goroutines calling into the same Partition
NumCallers == 2
\* executor replies are, among others, all concatenations of up to
\* MaxChunks chunks of text
MaxChunks == 3

(***************************************************************************)
(* Constants of the package (lines 25-52).                                 *)
(***************************************************************************)
PartitionGPT ==
    <<"g", "p", "t">>
parted ==
    <<"p", "a", "r", "t", "e", "d", " ">>
partprobe ==
    <<"p", "a", "r", "t", "p", "r", "o", "b", "e", " ">>
sgdisk ==
    <<"s", "g", "d", "i", "s", "k", " ">>
PartprobeDeviceCmdTmpl ==
    partprobe \o <<"-", "d", " ", "-", "s", " ", "%", "s">>
PartprobeCmdTmpl ==
    partprobe \o <<"%", "s">>
CreatePartitionTableCmdTmpl ==
    parted \o <<"-", "s", " ", "%", "s", " ", "m", "k", "l", "a", "b", "e", "l", " ",
                "%", "s">>
CreatePartitionCmdTmpl ==
    parted \o <<"-", "s", " ", "%", "s", " ", "m", "k", "p", "a", "r", "t", " ", "-",
                "-", "a", "l", "i", "g", "n", " ", "o", "p", "t", "i", "m", "a", "l",
                " ", "%", "s", " ", "0", "%", "%", " ", "1", "0", "0", "%", "%">>
DeletePartitionCmdTmpl ==
    parted \o <<"-", "s", " ", "%", "s", " ", "r", "m", " ", "%", "s">>
SetPartitionUUIDCmdTmpl ==
    sgdisk \o <<"%", "s", " ", "-", "-", "p", "a", "r", "t", "i", "t", "i", "o", "n",
                "-", "g", "u", "i", "d", "=", "%", "s", ":", "%", "s">>
GetPartitionUUIDCmdTmpl ==
    sgdisk \o <<"%", "s", " ", "-", "-", "i", "n", "f", "o", "=", "%", "s">>

\* the separator of strings.Split in IsPartitionExists
partitionsToken ==
    <<"p", "a", "r", "t", "i", "t", "i", "o", "n", "s">>
\* the separator of strings.Split in GetPartitionTableType
spaceSep ==
    <<" ">>
\* the separator of strings.Split in GetPartitionUUID
newlineSep ==
    <<"\n">>
\* the label looked for by GetPartitionUUID
partitionPresentation ==
    <<"P", "a", "r", "t", "i", "t", "i", "o", "n", " ", "u", "n", "i", "q",
      "u", "e", " ", "G", "U", "I", "D", ":">>

\* formats of the errors built with fmt.Errorf
IsPartitionExistsErrTmpl ==
    <<"u", "n", "a", "b", "l", "e", " ", "t", "o", " ", "c", "h", "e", "c",
      "k", " ", "p", "a", "r", "t", "i", "t", "i", "o", "n", " ", "%", "#",
      "v", " ", "e", "x", "i", "s", "t", "e", "n", "c", "e", " ", "f", "o",
      "r", " ", "%", "s">>
UnsupportedTypeErrTmpl ==
    <<"u", "n", "a", "b", "l", "e", " ", "t", "o", " ", "c", "r", "e", "a",
      "t", "e", " ", "p", "a", "r", "t", "i", "t", "i", "o", "n", " ", "t",
      "a", "b", "l", "e", " ", "f", "o", "r", " ", "d", "e", "v", "i", "c",
      "e", " ", "%", "s", " ", "u", "n", "s", "u", "p", "p", "o", "r", "t",
      "e", "d", " ", "p", "a", "r", "t", "i", "t", "i", "o", "n", " ", "t",
      "a", "b", "l", "e", " ", "t", "y", "p", "e", ":", " ", "%", "#", "v">>
CreatePartitionTableErrTmpl ==
    <<"u", "n", "a", "b", "l", "e", " ", "t", "o", " ", "c", "r", "e", "a",
      "t", "e", " ", "p", "a", "r", "t", "i", "t", "i", "o", "n", " ", "t",
      "a", "b", "l", "e", " ", "f", "o", "r", " ", "d", "e", "v", "i", "c",
      "e", " ", "%", "s">>
GetPartitionTableTypeErrTmpl ==
    <<"u", "n", "a", "b", "l", "e", " ", "t", "o", " ", "g", "e", "t", " ",
      "p", "a", "r", "t", "i", "t", "i", "o", "n", " ", "t", "a", "b", "l",
      "e", " ", "f", "o", "r", " ", "d", "e", "v", "i", "c", "e", " ", "%",
      "s">>
ParseOutputErrTmpl ==
    <<"u", "n", "a", "b", "l", "e", " ", "t", "o", " ", "p", "a", "r", "s",
      "e", " ", "o", "u", "t", "p", "u", "t", " ", "'", "%", "s", "'", " ",
      "f", "o", "r", " ", "d", "e", "v", "i", "c", "e", " ", "%", "s">>
DeletePartitionErrTmpl ==
    <<"u", "n", "a", "b", "l", "e", " ", "t", "o", " ", "d", "e", "l", "e",
      "t", "e", " ", "p", "a", "r", "t", "i", "t", "i", "o", "n", " ", "%",
      "#", "v", " ", "f", "r", "o", "m", " ", "d", "e", "v", "i", "c", "e",
      " ", "%", "s", ":", " ", "%", "s", ",", " ", "e", "r", "r", "o", "r",
      ":", " ", "%", "v">>
GetPartitionUUIDErrTmpl ==
    <<"u", "n", "a", "b", "l", "e", " ", "t", "o", " ", "g", "e", "t", " ",
      "p", "a", "r", "t", "i", "t", "i", "o", "n", " ", "G", "U", "I", "D",
      " ", "f", "o", "r", " ", "d", "e", "v", "i", "c", "e", " ", "%", "s">>

\* supportedTypes list of supported partition table types
supportedTypesWithMsdos ==
    <<PartitionGPT, <<"m", "s", "d", "o", "s">>>>
supportedTypes ==
    <<PartitionGPT>>

(***************************************************************************)
(* The Go library functions the package calls, on character sequences.     *)
(***************************************************************************)
\* unicode.IsSpace on the characters of the model
Whitespace == {" ", "\t", "\n", "\r", "\f"}

UpperLetters ==
    <<"A", "B", "C", "D", "E", "F", "G", "H", "I", "J", "K", "L", "M", "N",
      "O", "P", "Q", "R", "S", "T", "U", "V", "W", "X", "Y", "Z">>
LowerLetters ==
    <<"a", "b", "c", "d", "e", "f", "g", "h", "i", "j", "k", "l", "m", "n",
      "o", "p", "q", "r", "s", "t", "u", "v", "w", "x", "y", "z">>

\* strings.ToLower
ToLowerChar(ch) ==
    IF \E i \in 1..Len(UpperLetters) : UpperLetters[i] = ch
    THEN LowerLetters[CHOOSE i \in 1..Len(UpperLetters) : UpperLetters[i] = ch]
    ELSE ch
ToLower(s) == [i \in 1..Len(s) |-> ToLowerChar(s[i])]

\* strings.Index: offset of the first occurrence of sep in s, -1 if none
Index(s, sep) ==
    LET At(i) == SubSeq(s, i + 1, i + Len(sep)) = sep
        Hits  == {i \in 0..(Len(s) - Len(sep)) : At(i)}
    IN  IF Hits = {} THEN -1
        ELSE CHOOSE i \in Hits : \A j \in Hits : i <= j

\* strings.Contains
Contains(s, substr) == Index(s, substr) >= 0

\* strings.Split with a non-empty separator: cuts at the successive
\* non-overlapping occurrences of sep, left to right
RECURSIVE Split(_, _)
Split(s, sep) ==
    LET i == Index(s, sep)
    IN  IF i < 0 THEN <<s>>
        ELSE <<SubSeq(s, 1, i)>> \o Split(SubSeq(s, i + Len(sep) + 1, Len(s)), sep)

\* strings.TrimSpace
TrimSpace(s) ==
    LET Keep == {i \in 1..Len(s) : s[i] \notin Whitespace}
    IN  IF Keep = {} THEN <<>>
        ELSE SubSeq(s, CHOOSE i \in Keep : \A j \in Keep : i <= j,
                       CHOOSE i \in Keep : \A j \in Keep : i >= j)

\* strconv.Quote, which renders a string under the verb %#v
GoQuoteChar(ch) ==
    CASE ch = "\"" -> <<"\\", "\"">>
      [] ch = "\\" -> <<"\\", "\\">>
      [] ch = "\n" -> <<"\\", "n">>
      [] ch = "\t" -> <<"\\", "t">>
      [] ch = "\r" -> <<"\\", "r">>
      [] ch = "\f" -> <<"\\", "f">>
      [] OTHER     -> <<ch>>
RECURSIVE GoQuoteBody(_)
GoQuoteBody(s) ==
    LET Escaped == {i \in 1..Len(s) : GoQuoteChar(s[i]) # <<s[i]>>}
    IN  IF Escaped = {} THEN s
        ELSE LET i == CHOOSE k \in Escaped : \A j \in Escaped : k <= j
             IN  SubSeq(s, 1, i - 1) \o GoQuoteChar(s[i])
                    \o GoQuoteBody(SubSeq(s, i + 1, Len(s)))
GoQuote(s) == <<"\"">> \o GoQuoteBody(s) \o <<"\"">>

\* fmt.Sprintf for the verbs the package uses: %s and %v print the operand,
\* %#v prints it quoted, %% prints a percent sign
RECURSIVE Sprintf(_, _)
Sprintf(format, a) ==
    LET i == Index(format, <<"%">>)
    IN  IF i < 0 THEN format
        ELSE LET text == SubSeq(format, 1, i)
                 verb == format[i + 2]
                 After(n) == SubSeq(format, i + n + 1, Len(format))
             IN  IF verb = "%" THEN text \o <<"%">> \o Sprintf(After(2), a)
                 ELSE IF verb = "#"
                 THEN text \o GoQuote(a[1]) \o Sprintf(After(3), Tail(a))
                 ELSE text \o a[1] \o Sprintf(After(2), Tail(a))

\* error values: the nil error, an error made by fmt.Errorf, and an error
\* handed back by the executor
Nil == [src |-> "nil", msg |-> <<>>]
Errorf(format, a) == [src |-> "fmt.Errorf", msg |-> Sprintf(format, a)]

\* util.ContainsString
ContainsString(slice, str) == \E i \in 1..Len(slice) : slice[i] = str

(***************************************************************************)
(* Inputs: the arguments callers pass and the replies the executor gives.  *)
(***************************************************************************)
\* all concatenations of at most n chunks out of S
RECURSIVE Concat(_)
Concat(ss) == IF ss = <<>> THEN <<>> ELSE Head(ss) \o Concat(Tail(ss))
ChunkTexts(S, n) == {Concat(ss) : ss \in UNION {[1..k -> S] : k \in 0..n}}

SdyDevice ==
    <<"/", "d", "e", "v", "/", "s", "d", "y">>
PartitionsDevice ==
    <<"/", "d", "e", "v", "/", "p", "a", "r", "t", "i", "t", "i", "o", "n",
      "s">>
Devices == {<<>>, SdyDevice, PartitionsDevice}
PartNums == {<<"1">>, <<"3">>}
MsdosType ==
    <<"m", "s", "d", "o", "s">>
TableTypes == {PartitionGPT, MsdosType, <<>>}
PartNames == {<<"p", "1">>}
PartUUIDs == {<<"A", "B", "-", "1">>}

\* errors the executor reports
ExitStatusErr ==
    [src |-> "executor", msg |-> <<"e", "x", "i", "t", " ", "s", "t", "a", "t", "u", "s", " ", "1">>]
KilledErr ==
    [src |-> "executor", msg |-> <<"s", "i", "g", "n", "a", "l", ":", " ", "k", "i", "l", "l", "e", "d">>]
ExecErrors == {ExitStatusErr, KilledErr}

\* the reply of RunCmd: (stdout, stderr, err)
Reply(stdout, stderr, err) == [stdout |-> stdout, stderr |-> stderr, err |-> err]
NoReply == Reply(<<>>, <<>>, Nil)
Succeeded(stdouts) == {Reply(out, <<>>, Nil) : out \in stdouts}

\* the probe's line "<device>: <type> partitions<list>"
ProbeLine(dev, type, list) ==
    dev \o <<":", " ">> \o type \o <<" ">> \o partitionsToken \o list
PartitionLists == {<<>>, <<" ">>, <<" ", "1">>, <<" ", "1", " ", "2">>}
ProbeLines ==
    {ProbeLine(dev, type, list) \o nl :
        dev \in {SdyDevice, PartitionsDevice}, type \in {PartitionGPT, MsdosType},
        list \in PartitionLists, nl \in {<<>>, <<"\n">>}}
ProbeChunks == {partitionsToken, <<" ">>, <<"\t">>, <<"\n">>, PartitionGPT, <<"1">>}
ProbeStdouts == ProbeLines \cup ChunkTexts(ProbeChunks, MaxChunks)

\* the report of sgdisk --info
GUIDText ==
    <<"5", "2", "0", "9", "C", "F", "D", "8", "-", "3", "A", "B", "1">>
FirstSectorLine ==
    <<"F", "i", "r", "s", "t", " ", "s", "e", "c", "t", "o", "r", ":", " ",
      "2", "0", "4", "8">>
InfoReport(pre, sp, guid, post) ==
    pre \o partitionPresentation \o sp \o guid \o post
InfoReports ==
    {InfoReport(pre, sp, guid, post) :
        pre \in {<<>>, FirstSectorLine \o <<"\n">>}, sp \in {<<>>, <<" ">>},
        guid \in {<<>>, GUIDText}, post \in {<<>>, <<"\n">> \o FirstSectorLine}}
InfoChunks == {partitionPresentation, <<" ">>, <<"\n">>, <<"A", "b">>}
InfoStdouts == InfoReports \cup ChunkTexts(InfoChunks, MaxChunks)

\* replies of a failed command: any output may come with the error
FailedStdouts ==
    {<<>>, ProbeLine(SdyDevice, PartitionGPT, <<" ", "1", " ", "2">>),
     InfoReport(<<>>, <<" ">>, GUIDText, <<>>)}
FailedStderrs ==
    {<<>>, <<"E", "r", "r", "o", "r", ":", " ", "b", "u", "s", "y">>}
Failed ==
    {Reply(out, errout, err) :
        out \in FailedStdouts, errout \in FailedStderrs, err \in ExecErrors}

\* inputs of a single caller exploring every shape of reply
AllInputs ==
    [devices |-> Devices, partNums |-> PartNums, tableTypes |-> TableTypes,
     partNames |-> PartNames, partUUIDs |-> PartUUIDs,
     probeReplies |-> Succeeded(ProbeStdouts) \cup Failed,
     infoReplies |-> Succeeded(InfoStdouts) \cup Failed,
     plainReplies |-> Succeeded({<<>>}) \cup Failed]

\* inputs of several callers working on one device at the same time
SharedDeviceInputs ==
    [devices |-> {SdyDevice}, partNums |-> PartNums,
     tableTypes |-> {PartitionGPT, MsdosType},
     partNames |-> PartNames, partUUIDs |-> PartUUIDs,
     probeReplies |->
        Succeeded({ProbeLine(SdyDevice, PartitionGPT, <<" ", "1", " ", "2">>),
                   ProbeLine(SdyDevice, PartitionGPT, <<>>)})
        \cup {Reply(<<>>, <<>>, ExitStatusErr)},
     infoReplies |->
        Succeeded({InfoReport(<<>>, <<" ">>, GUIDText, <<>>)})
        \cup {Reply(<<>>, <<>>, ExitStatusErr)},
     plainReplies |-> Succeeded({<<>>}) \cup {Reply(<<>>, <<>>, ExitStatusErr)}]

(***************************************************************************)
(* State.                                                                  *)
(***************************************************************************)
\* p: the Partition, whose only field is the executor e
\* frames: per caller, the call it has in progress or has finished
VARIABLES p, frames
vars == <<p, frames>>

Callers == 1..NumCallers

\* NewPartition
NewPartition(e) == [e |-> e]

\* a caller that has not called yet
IdleFrame ==
    [pc |-> "idle", op |-> "none", device |-> <<>>, arg |-> <<>>, partUUID |-> <<>>,
     cmd |-> <<>>, nexec |-> 0, reply |-> NoReply, val |-> <<>>, err |-> Nil]

Init ==
    /\ p = NewPartition("CmdExecutor")
    /\ frames = [c \in Callers |-> IdleFrame]

\* p.e.RunCmd(cmd) is issued: the call blocks until the command is over
RunCmd(c, op, device, arg, partUUID, cmd) ==
    /\ frames[c].pc # "running"
    /\ frames' = [frames EXCEPT ![c] =
            [pc |-> "running", op |-> op, device |-> device, arg |-> arg,
             partUUID |-> partUUID, cmd |-> cmd, nexec |-> 1, reply |-> NoReply,
             val |-> <<>>, err |-> Nil]]
    /\ UNCHANGED p

\* the values RunCmd hands back are locals of the call
SharedLocals(c, reply) ==
    IF \E d \in Callers \ {c} : frames[d].pc = "done" /\ frames[d].nexec > 0
    THEN frames[CHOOSE d \in Callers \ {c} :
                    frames[d].pc = "done" /\ frames[d].nexec > 0].reply
    ELSE reply
Locals(c, reply) == reply

\* the call returns (val, err) to its caller
Return(c, reply, out) ==
    /\ frames' = [frames EXCEPT ![c].pc = "done", ![c].reply = reply,
                                ![c].val = out.val, ![c].err = out.err]
    /\ UNCHANGED p

Result(val, err) == [val |-> val, err |-> err]

(***************************************************************************)
(* The eight operations.  Each has an operator for what it returns given   *)
(* the executor's reply, an action for the call up to the point where the  *)
(* command runs, and an action for the rest of the call.                   *)
(***************************************************************************)
Running(c, op) == frames[c].pc = "running" /\ frames[c].op = op

\* IsPartitionExists
IsPartitionExistsByNumber(device, partNum, reply) ==
    IF reply.err # Nil
    THEN Result(FALSE, Errorf(IsPartitionExistsErrTmpl, <<partNum, device>>))
    ELSE LET stdout == TrimSpace(reply.stdout)
             s      == Split(stdout, partitionsToken)
         IN  IF Len(s) > 1 /\ Contains(s[2], partNum)
             THEN Result(TRUE, Nil)
             ELSE Result(FALSE, Nil)
IsPartitionExistsIgnoringErr(device, partNum, reply) ==
    LET stdout == TrimSpace(reply.stdout)
        s      == Split(stdout, partitionsToken)
    IN  IF Len(s) > 1 /\ s[2] # <<>>
        THEN Result(TRUE, Nil)
        ELSE Result(FALSE, Nil)
IsPartitionExists(device, partNum, reply) ==
    IF reply.err # Nil
    THEN Result(FALSE, Errorf(IsPartitionExistsErrTmpl, <<partNum, device>>))
    ELSE LET stdout == TrimSpace(reply.stdout)
             s      == Split(stdout, partitionsToken)
         IN  IF Len(s) > 1 /\ s[2] # <<>>
             THEN Result(TRUE, Nil)
             ELSE Result(FALSE, Nil)
IsPartitionExistsCall(c, device, partNum) ==
    RunCmd(c, "IsPartitionExists", device, partNum, <<>>,
           Sprintf(PartprobeDeviceCmdTmpl, <<device>>))
IsPartitionExistsReturn(c, reply) ==
    /\ Running(c, "IsPartitionExists")
    /\ Return(c, reply,
              IsPartitionExists(frames[c].device, frames[c].arg, Locals(c, reply)))

\* CreatePartitionTable
CreatePartitionTable(device, partTableType, reply) ==
    IF reply.err # Nil
    THEN Result(<<>>, Errorf(CreatePartitionTableErrTmpl, <<device>>))
    ELSE Result(<<>>, Nil)
CreatePartitionTableCall(c, device, partTableType) ==
    IF ~ContainsString(supportedTypes, partTableType)
    THEN /\ frames[c].pc # "running"
         /\ frames' = [frames EXCEPT ![c] =
                [pc |-> "done", op |-> "CreatePartitionTable", device |-> device,
                 arg |-> partTableType, partUUID |-> <<>>, cmd |-> <<>>,
                 nexec |-> 0, reply |-> NoReply, val |-> <<>>,
                 err |-> Errorf(UnsupportedTypeErrTmpl, <<device, partTableType>>)]]
         /\ UNCHANGED p
    ELSE RunCmd(c, "CreatePartitionTable", device, partTableType, <<>>,
                Sprintf(CreatePartitionTableCmdTmpl, <<device, partTableType>>))
CreatePartitionTableReturn(c, reply) ==
    /\ Running(c, "CreatePartitionTable")
    /\ Return(c, reply,
              CreatePartitionTable(frames[c].device, frames[c].arg, Locals(c, reply)))

\* GetPartitionTableType
GetPartitionTableType(device, reply) ==
    IF reply.err # Nil
    THEN Result(<<>>, Errorf(GetPartitionTableTypeErrTmpl, <<device>>))
    ELSE LET s == Split(reply.stdout, spaceSep)
         IN  IF Len(s) < 2
             THEN Result(<<>>, Errorf(ParseOutputErrTmpl, <<reply.stdout, device>>))
             ELSE Result(s[2], Nil)
GetPartitionTableTypeCall(c, device) ==
    RunCmd(c, "GetPartitionTableType", device, <<>>, <<>>,
           Sprintf(PartprobeDeviceCmdTmpl, <<device>>))
GetPartitionTableTypeReturn(c, reply) ==
    /\ Running(c, "GetPartitionTableType")
    /\ Return(c, reply, GetPartitionTableType(frames[c].device, Locals(c, reply)))

\* CreatePartition
CreatePartition(device, partName, reply) ==
    IF reply.err # Nil THEN Result(<<>>, reply.err) ELSE Result(<<>>, Nil)
CreatePartitionCall(c, device, partName) ==
    RunCmd(c, "CreatePartition", device, partName, <<>>,
           Sprintf(CreatePartitionCmdTmpl, <<device, partName>>))
CreatePartitionReturn(c, reply) ==
    /\ Running(c, "CreatePartition")
    /\ Return(c, reply,
              CreatePartition(frames[c].device, frames[c].arg, Locals(c, reply)))

\* DeletePartition
DeletePartition(device, partNum, reply) ==
    IF reply.err # Nil
    THEN Result(<<>>, Errorf(DeletePartitionErrTmpl,
                            <<partNum, device, reply.stderr, reply.err.msg>>))
    ELSE Result(<<>>, Nil)
DeletePartitionCall(c, device, partNum) ==
    RunCmd(c, "DeletePartition", device, partNum, <<>>,
           Sprintf(DeletePartitionCmdTmpl, <<device, partNum>>))
DeletePartitionReturn(c, reply) ==
    /\ Running(c, "DeletePartition")
    /\ Return(c, reply,
              DeletePartition(frames[c].device, frames[c].arg, Locals(c, reply)))

\* SetPartitionUUID
SetPartitionUUID(device, partNum, partUUID, reply) ==
    IF reply.err # Nil THEN Result(<<>>, reply.err) ELSE Result(<<>>, Nil)
SetPartitionUUIDCall(c, device, partNum, partUUID) ==
    RunCmd(c, "SetPartitionUUID", device, partNum, partUUID,
           Sprintf(SetPartitionUUIDCmdTmpl, <<device, partNum, partUUID>>))
SetPartitionUUIDReturn(c, reply) ==
    /\ Running(c, "SetPartitionUUID")
    /\ Return(c, reply,
              SetPartitionUUID(frames[c].device, frames[c].arg, frames[c].partUUID,
                               Locals(c, reply)))

\* GetPartitionUUID: the loop over the lines of stdout
RECURSIVE ScanLines(_, _)
ScanLines(lines, device) ==
    IF lines = <<>>
    THEN Result(<<>>, Errorf(GetPartitionUUIDErrTmpl, <<device>>))
    ELSE LET line == Head(lines)
             res  == Split(TrimSpace(line), partitionPresentation)
         IN  IF Contains(line, partitionPresentation) /\ Len(res) > 1
             THEN Result(ToLower(TrimSpace(res[2])), Nil)
             ELSE ScanLines(Tail(lines), device)
GetPartitionUUID(device, partNum, reply) ==
    IF reply.err # Nil
    THEN Result(<<>>, reply.err)
    ELSE ScanLines(Split(reply.stdout, newlineSep), device)
GetPartitionUUIDCall(c, device, partNum) ==
    RunCmd(c, "GetPartitionUUID", device, partNum, <<>>,
           Sprintf(GetPartitionUUIDCmdTmpl, <<device, partNum>>))
GetPartitionUUIDReturn(c, reply) ==
    /\ Running(c, "GetPartitionUUID")
    /\ Return(c, reply,
              GetPartitionUUID(frames[c].device, frames[c].arg, Locals(c, reply)))

\* SyncPartitionTable
SyncPartitionTableWrapping(device, reply) ==
    IF reply.err # Nil
    THEN Result(<<>>, Errorf(CreatePartitionTableErrTmpl, <<device>>))
    ELSE Result(<<>>, Nil)
SyncPartitionTable(device, reply) ==
    IF reply.err # Nil THEN Result(<<>>, reply.err) ELSE Result(<<>>, Nil)
SyncPartitionTableCall(c, device) ==
    RunCmd(c, "SyncPartitionTable", device, <<>>, <<>>,
           Sprintf(PartprobeCmdTmpl, <<device>>))
SyncPartitionTableRetrying(c, reply) ==
    /\ Running(c, "SyncPartitionTable")
    /\ IF reply.err # Nil /\ frames[c].nexec < 2
       THEN /\ frames' = [frames EXCEPT ![c].nexec = @ + 1]
            /\ UNCHANGED p
       ELSE Return(c, reply, SyncPartitionTable(frames[c].device, Locals(c, reply)))
SyncPartitionTableReturn(c, reply) ==
    /\ Running(c, "SyncPartitionTable")
    /\ Return(c, reply, SyncPartitionTable(frames[c].device, Locals(c, reply)))

(***************************************************************************)
(* Specifications.                                                         *)
(***************************************************************************)
NextOver(C, In) ==
    \E c \in C :
        \/ \E device \in In.devices, partNum \in In.partNums :
                IsPartitionExistsCall(c, device, partNum)
        \/ \E reply \in In.probeReplies : IsPartitionExistsReturn(c, reply)
        \/ \E device \in In.devices, partTableType \in In.tableTypes :
                CreatePartitionTableCall(c, device, partTableType)
        \/ \E reply \in In.plainReplies : CreatePartitionTableReturn(c, reply)
        \/ \E device \in In.devices : GetPartitionTableTypeCall(c, device)
        \/ \E reply \in In.probeReplies : GetPartitionTableTypeReturn(c, reply)
        \/ \E device \in In.devices, partName \in In.partNames :
                CreatePartitionCall(c, device, partName)
        \/ \E reply \in In.plainReplies : CreatePartitionReturn(c, reply)
        \/ \E device \in In.devices, partNum \in In.partNums :
                DeletePartitionCall(c, device, partNum)
        \/ \E reply \in In.plainReplies : DeletePartitionReturn(c, reply)
        \/ \E device \in In.devices, partNum \in In.partNums,
              partUUID \in In.partUUIDs :
                SetPartitionUUIDCall(c, device, partNum, partUUID)
        \/ \E reply \in In.plainReplies : SetPartitionUUIDReturn(c, reply)
        \/ \E device \in In.devices, partNum \in In.partNums :
                GetPartitionUUIDCall(c, device, partNum)
        \/ \E reply \in In.infoReplies : GetPartitionUUIDReturn(c, reply)
        \/ \E device \in In.devices : SyncPartitionTableCall(c, device)
        \/ \E reply \in In.plainReplies : SyncPartitionTableReturn(c, reply)

\* one caller, every shape of reply
Next == NextOver({1}, AllInputs)
Spec == Init /\ [][Next]_vars

\* several callers at once on one device
NextConcurrent == NextOver(Callers, SharedDeviceInputs)
SpecConcurrent == Init /\ [][NextConcurrent]_vars

(***************************************************************************)
(* Properties.                                                             *)
(***************************************************************************)
Done(c, op) == frames[c].pc = "done" /\ frames[c].op = op
\* the executor was invoked by the call and reported success / failure
ExecSucceeded(c) == frames[c].nexec > 0 /\ frames[c].reply.err = Nil
ExecFailed(c) == frames[c].nexec > 0 /\ frames[c].reply.err # Nil

\* C1: CreatePartitionTable with a type other than "gpt" returns a non-nil
\* error without invoking the executor; with "gpt" the executor is invoked.
C1_UnsupportedTypeRejectedBeforeExec ==
    \A c \in Callers :
        frames[c].op = "CreatePartitionTable" =>
            IF frames[c].arg # PartitionGPT
            THEN frames[c].pc = "done" /\ frames[c].err # Nil /\ frames[c].nexec = 0
            ELSE frames[c].nexec = 1
C1_Witness ==
    \E c \in Callers :
        /\ Done(c, "CreatePartitionTable")
        /\ frames[c].arg = MsdosType
        /\ frames[c].nexec = 0
        /\ frames[c].err = Errorf(UnsupportedTypeErrTmpl, <<frames[c].device, MsdosType>>)

\* C2: when the executor call of an operation fails, the operation returns a
\* non-nil error, and its value is false (IsPartitionExists) or the empty
\* string (GetPartitionTableType, GetPartitionUUID).
C2_ExecFailurePropagated ==
    \A c \in Callers :
        frames[c].pc = "done" /\ ExecFailed(c) =>
            /\ frames[c].err # Nil
            /\ frames[c].op = "IsPartitionExists" => frames[c].val = FALSE
            /\ frames[c].op \in {"GetPartitionTableType", "GetPartitionUUID"} =>
                    frames[c].val = <<>>
C2_Witness ==
    \E c \in Callers :
        /\ Done(c, "IsPartitionExists")
        /\ ExecFailed(c)
        /\ frames[c].reply.stdout = ProbeLine(SdyDevice, PartitionGPT, <<" ", "1", " ", "2">>)
        /\ frames[c].val = FALSE
        /\ frames[c].err # Nil

\* C3: when the executor succeeds but stdout lacks the token "partitions"
\* altogether, IsPartitionExists returns a non-nil error.
C3_MissingTokenIsAnError ==
    \A c \in Callers :
        /\ Done(c, "IsPartitionExists")
        /\ ExecSucceeded(c)
        /\ ~Contains(frames[c].reply.stdout, partitionsToken)
        => frames[c].err # Nil

\* C4: when the executor succeeds and stdout is "<device>: <type> partitions
\* <list>", IsPartitionExists returns true exactly when <list> is not empty,
\* also when <device> or <type> contain "partitions".
C4_TrueIffListNonEmpty ==
    \A c \in Callers :
        Done(c, "IsPartitionExists") /\ ExecSucceeded(c) =>
            \A dev \in {SdyDevice, PartitionsDevice}, type \in {PartitionGPT, MsdosType},
               list \in PartitionLists, nl \in {<<>>, <<"\n">>} :
                frames[c].reply.stdout = ProbeLine(dev, type, list) \o nl =>
                    /\ frames[c].err = Nil
                    /\ frames[c].val = (TrimSpace(list) # <<>>)

\* strings.Fields: the maximal runs of non-whitespace characters
RECURSIVE Fields(_)
Fields(s) ==
    LET t == TrimSpace(s)
        Stops == {i \in 1..Len(t) : t[i] \in Whitespace}
    IN  IF t = <<>> THEN <<>>
        ELSE IF Stops = {} THEN <<t>>
        ELSE LET i == CHOOSE k \in Stops : \A j \in Stops : k <= j
             IN  <<SubSeq(t, 1, i - 1)>> \o Fields(SubSeq(t, i + 1, Len(t)))

\* C5: when the executor succeeds, GetPartitionTableType returns the second
\* whitespace-separated token of stdout with a nil error, and a parse error
\* when there are fewer than two; a type returned with a nil error is neither
\* empty nor contains whitespace.
C5_SecondWhitespaceToken ==
    \A c \in Callers :
        Done(c, "GetPartitionTableType") /\ ExecSucceeded(c) =>
            LET f == Fields(frames[c].reply.stdout)
            IN  /\ IF Len(f) < 2
                   THEN frames[c].err # Nil
                   ELSE frames[c].err = Nil /\ frames[c].val = f[2]
                /\ frames[c].err = Nil =>
                        /\ frames[c].val # <<>>
                        /\ \A i \in 1..Len(frames[c].val) :
                                frames[c].val[i] \notin Whitespace

\* C6: when the executor succeeds, GetPartitionUUID takes the first line of
\* stdout with the label, and returns what follows the label, trimmed and
\* lower-cased; without such a line, or with nothing after the label, it
\* returns the parse error naming the device, never an empty UUID.
C6_UUIDOrParseError ==
    \A c \in Callers :
        Done(c, "GetPartitionUUID") /\ ExecSucceeded(c) =>
            LET lines    == Split(frames[c].reply.stdout, newlineSep)
                Matching == {i \in 1..Len(lines) :
                                Contains(lines[i], partitionPresentation)}
                parseErr == Errorf(GetPartitionUUIDErrTmpl, <<frames[c].device>>)
            IN  /\ frames[c].err = Nil => frames[c].val # <<>>
                /\ IF Matching = {} THEN frames[c].err = parseErr
                   ELSE LET first == CHOOSE i \in Matching : \A j \in Matching : i <= j
                            rest  == TrimSpace(
                                Split(lines[first], partitionPresentation)[2])
                        IN  IF rest = <<>> THEN frames[c].err = parseErr
                            ELSE frames[c].err = Nil /\ frames[c].val = ToLower(rest)

\* C7 as stated: every call invokes the executor exactly once.
C7_ExactlyOneInvocation ==
    \A c \in Callers : frames[c].pc \in {"running", "done"} => frames[c].nexec = 1
\* C7 amended: no call invokes the executor more than once, whether it
\* succeeds or fails; every call invokes it exactly once except
\* CreatePartitionTable with a type other than "gpt", which invokes it never.
C7_AtMostOneInvocation ==
    \A c \in Callers :
        /\ frames[c].nexec <= 1
        /\ frames[c].pc = "running" => frames[c].nexec = 1
        /\ frames[c].pc = "done" =>
            (frames[c].nexec = 0 <=>
                frames[c].op = "CreatePartitionTable" /\ frames[c].arg # PartitionGPT)
C7_Witness ==
    \E c \in Callers :
        /\ Done(c, "SyncPartitionTable")
        /\ ExecFailed(c)
        /\ frames[c].nexec = 1
        /\ frames[c].err # Nil

\* what a finished call returns when it runs alone with its arguments and
\* the reply its command got
Alone(f) ==
    CASE f.op = "IsPartitionExists" -> IsPartitionExists(f.device, f.arg, f.reply)
      [] f.op = "CreatePartitionTable" ->
            IF f.nexec = 0
            THEN Result(<<>>, Errorf(UnsupportedTypeErrTmpl, <<f.device, f.arg>>))
            ELSE CreatePartitionTable(f.device, f.arg, f.reply)
      [] f.op = "GetPartitionTableType" -> GetPartitionTableType(f.device, f.reply)
      [] f.op = "CreatePartition" -> CreatePartition(f.device, f.arg, f.reply)
      [] f.op = "DeletePartition" -> DeletePartition(f.device, f.arg, f.reply)
      [] f.op = "SetPartitionUUID" ->
            SetPartitionUUID(f.device, f.arg, f.partUUID, f.reply)
      [] f.op = "GetPartitionUUID" -> GetPartitionUUID(f.device, f.arg, f.reply)
      [] f.op = "SyncPartitionTable" -> SyncPartitionTable(f.device, f.reply)

C9_SyncCommandAndError ==
    \A c \in Callers :
        frames[c].op = "SyncPartitionTable" =>
            /\ frames[c].cmd = partprobe \o frames[c].device
            /\ frames[c].pc = "done" =>
                /\ frames[c].err = Nil <=> frames[c].reply.err = Nil
                /\ frames[c].err = frames[c].reply.err
C9_Witness ==
    \E c \in Callers :
        /\ Done(c, "SyncPartitionTable")
        /\ frames[c].device = <<>>
        /\ frames[c].cmd = <<"p", "a", "r", "t", "p", "r", "o", "b", "e", " ">>
        /\ ExecSucceeded(c)
        /\ frames[c].err = Nil

\* C10: for one device and one executor reply, calls of IsPartitionExists
\* with different partition numbers issue the same command and return the
\* same boolean.
C10_PartNumIgnored ==
    \A c, d \in Callers :
        /\ frames[c].op = "IsPartitionExists" /\ frames[d].op = "IsPartitionExists"
        /\ frames[c].device = frames[d].device
        => /\ frames[c].cmd = frames[d].cmd
           /\ /\ frames[c].pc = "done" /\ frames[d].pc = "done"
              /\ frames[c].reply = frames[d].reply
              => frames[c].val = frames[d].val
C10_Witness ==
    \E c, d \in Callers :
        /\ Done(c, "IsPartitionExists") /\ Done(d, "IsPartitionExists")
        /\ frames[c].arg = <<"1">> /\ frames[d].arg = <<"3">>
        /\ frames[c].reply = frames[d].reply
        /\ frames[d].reply.stdout = ProbeLine(SdyDevice, PartitionGPT, <<" ", "1", " ", "2">>)
        /\ ExecSucceeded(d)
        /\ frames[d].val = TRUE
====
